---- MODULE Spec2Model ----
(***************************************************************************)
(* Turn-taking and stopping-condition engine of the debate simulator:      *)
(* app/classes/simulation.py (Simulation), app/classes/moderator.py        *)
(* (Moderator), app/classes/agents.py (PoliAgent), app/classes/memory.py   *)
(* (FixedMemory), and the background run loop of                           *)
(* app/services/simulation_service.py with the stop route of               *)
(* app/api/routes_sim.py.                                                  *)
(*                                                                         *)
(* Agents are numbered 1..n here (agent.id + 1); an agent's name is its    *)
(* number (agent names are taken to be pairwise distinct).  The reasoning  *)
(* backend, the similarity oracle and the random module are inputs of the  *)
(* actions, drawn from small sets.                                         *)
(***************************************************************************)
EXTENDS Integers, Sequences, FiniteSets, TLC

\* ------------------------------------------------------------------ bounds
MaxItersCfg == 4    \* max_iters ranges over 0..MaxItersCfg
MaxCap == 2         \* max_interventions_per_agent ranges over None, 0..MaxCap
MaxRounds == 4      \* rounds recorded in a debate of one or two agents
MaxRequests == 2    \* ModSpec: add_request calls between two resets
MaxCount == 2       \* ModSpec: hands counted, and speakers selected, in all
MaxPushes == 5      \* MemSpec: enqueue calls between two clears

\* ------------------------------------------------------- program constants
MemSize == 3        \* PoliAgent(memory_size=3)
SummaryEvery == 3   \* if self.iters % 3 == 0
Threshold == 75     \* threshold=0.75, in hundredths
DesireFloor == 1    \* np.clip(desire, 0.01, 1.0), in hundredths
DesireCeil == 100
ExpClip == 500      \* np.clip(exponents, -500, 500)

\* Python's None (an Optional[int] field) and a float NaN, as integers outside
\* the ranges the fields take here
None == -1
NaN == -1000

VARIABLES
  \* Simulation configuration (dataclass fields given at construction)
  n_agents,                     \* len(agent_configs)
  max_iters,
  max_interventions_per_agent,
  bias,
  \* what the critique module answers in this behaviour
  \* (crit.corrected_response: empty, or a rewritten text)
  critique,
  \* FixedMemory(memory_size): the maxlen of every agent's deque
  memory_size,
  \* agent_config.name of every agent, as integers
  agent_names,
  \* Simulation state
  _started, _finished, iters,
  intervenciones, opiniones, engagement_log,
  _locutor,
  \* PoliAgent fields, one entry per built agent (empty before start())
  interventions_used, last_opinion, memory,
  \* Moderator fields
  interventions, hands_raised, _requests, _desire_weights, weights,
  \* the result of the last call (what it returned or that it raised), with
  \* the inputs the backend gave during it
  ret,
  \* position of the caller inside Simulation.run()
  run_pc,
  \* background run loop and the Run row of the database
  svc_pc, run_status, run_finished, run_stopped_reason, run_iters

cfgVars == <<n_agents, max_iters, max_interventions_per_agent, bias, critique,
             memory_size, agent_names>>
simVars == <<_started, _finished, iters, intervenciones, opiniones,
             engagement_log, _locutor>>
agentVars == <<interventions_used, last_opinion, memory>>
modVars == <<interventions, hands_raised, _requests, _desire_weights, weights>>
svcVars == <<svc_pc, run_status, run_finished, run_stopped_reason, run_iters>>
vars == <<cfgVars, simVars, agentVars, modVars, ret, run_pc, svcVars>>

\* ----------------------------------------------------------------- inputs
AgentCounts == {1, 2, 3}       \* len(agent_configs)
Drafts == {"d"}                \* out.response of the respond module
Corrections == {"", "c"}       \* crit.corrected_response
Summaries == {"s"}             \* out.summary
Desires == {80}                \* float(out.desire_to_speak), in hundredths
LowDesire == 40                \* a second eagerness, answered by the first
                               \* agent only, so that the requests of one
                               \* round can carry different weights
\* what PoliAgent.propose does when the intent module is called: it raises,
\* or returns raise_hand with desire_to_speak
ProposalOutcomes ==
  {[raised |-> TRUE, raise_hand |-> FALSE, desire |-> 0],
   [raised |-> FALSE, raise_hand |-> FALSE, desire |-> 0]}
  \cup {[raised |-> FALSE, raise_hand |-> TRUE, desire |-> d] : d \in Desires}
\* the outcomes of the intent module call of agent i
ProposalOutcomesOf(i) ==
  IF i = 1
  THEN ProposalOutcomes
       \cup {[raised |-> FALSE, raise_hand |-> TRUE, desire |-> LowDesire]}
  ELSE ProposalOutcomes
\* what the similarity computation of diversity_too_high does: it raises, or
\* gives the average pairwise similarity, in hundredths
OracleOutcomes ==
  {[raised |-> TRUE, avg |-> 0]}
  \cup {[raised |-> FALSE, avg |-> a] : a \in {Threshold, 90}}
OracleNotAsked == [raised |-> FALSE, avg |-> 0]

\* agent.name
Name(i) == agent_names[i]
\* the names of a debate whose agents are all named differently
DistinctNames(n) == [i \in 1..n |-> i]

Zeros(n) == [i \in 1..n |-> 0]
SeqSum(s) ==
  LET RECURSIVE Sum(_)
      Sum(k) == IF k = 0 THEN 0 ELSE s[k] + Sum(k - 1)
  IN Sum(Len(s))
Range(s) == {s[k] : k \in 1..Len(s)}
\* all orders in which the members of S can complete
Orders(S) == {o \in [1..Cardinality(S) -> S] : Range(o) = S}

\* ------------------------------------------------------------ FixedMemory
\* variant: a full deque that refuses the new item instead of evicting
DequeAppend_keep_oldest(maxlen, q, item) ==
  IF Len(q) >= maxlen THEN q ELSE Append(q, item)

\* deque(maxlen=max_size).append: the item goes in on the right and, when the
\* deque is over its maxlen, the leftmost (oldest) item is dropped
DequeAppend(maxlen, q, item) ==
  LET a == Append(q, item) IN IF Len(a) > maxlen THEN Tail(a) ELSE a

\* FixedMemory.enqueue on an agent's memory (PoliAgent's memory_size = 3)
Enqueue(mem, item) == DequeAppend(MemSize, mem, item)

\* "\n".join(queue).strip() is non-empty
TextNonEmpty(mem) == \E k \in 1..Len(mem) : mem[k] # ""

\* --------------------------------------------------------------- PoliAgent
CanIntervene(cap, used) == IF cap = None THEN TRUE ELSE used < cap

\* variant: the draft is kept whatever the critique answers
FinalResponse_draft_only(draft, corrected) == draft

\* crit.corrected_response or draft
FinalResponse(draft, corrected) == IF corrected # "" THEN corrected ELSE draft

\* --------------------------------------------------------------- Moderator
Pow2(k) ==
  LET RECURSIVE P(_)
      P(j) == IF j <= 0 THEN 1 ELSE 2 * P(j - 1)
  IN P(k)
Clip(x, lo, hi) == IF x < lo THEN lo ELSE IF x > hi THEN hi ELSE x
SeqMin(s) ==
  LET RECURSIVE M(_)
      M(k) == IF k = 1 THEN s[1] ELSE IF s[k] < M(k - 1) THEN s[k] ELSE M(k - 1)
  IN M(Len(s))

\* variant: an agent listed twice in the requests is counted once
UpdateHandsRaised_once_per_agent(req, hr) ==
  [i \in DOMAIN hr |-> IF i \in Range(req) THEN hr[i] + 1 ELSE hr[i]]

\* for agent in self._requests: self.hands_raised[agent.id] += 1
UpdateHandsRaised(req, hr) ==
  [i \in DOMAIN hr |-> hr[i] + Cardinality({k \in 1..Len(req) : req[k] = i})]

\* variant: the interventions are multiplied by the bias, not divided by it
Exponent2_times_bias(i, inter, hr, b) ==
  LET b1 == IF b[i] = 0 THEN 1 ELSE b[i]
  IN Clip(2 * hr[i] - 2 * b1 * inter[i], -2 * ExpClip, 2 * ExpClip)

\* twice the clipped fairness exponent hands - (1/bias) * inter of requester
\* i, for a bias of 0 (read as 1), 1 or 2
Exponent2(i, inter, hr, b) ==
  LET b1 == IF b[i] = 0 THEN 1 ELSE b[i]
  IN Clip(2 * hr[i] - (2 \div b1) * inter[i], -2 * ExpClip, 2 * ExpClip)

\* np.clip(desire, 0.01, 1.0); a NaN stays NaN
ClipDesire(d) == IF d = NaN THEN NaN ELSE Clip(d, DesireFloor, DesireCeil)

\* combined = fairness_weights * desire, as integers up to the common factor
\* exp(min exponent)/100; exp is taken to base 4 (2 per half unit)
Combined(req, dw, inter, hr, b) ==
  LET e == [k \in 1..Len(req) |-> Exponent2(req[k], inter, hr, b)]
      m == SeqMin(e)
  IN [k \in 1..Len(req) |->
        IF ClipDesire(dw[k]) = NaN THEN NaN
        ELSE Pow2(e[k] - m) * ClipDesire(dw[k])]

\* not np.any(np.isfinite(combined)) or combined.sum() <= 0
\* (a sum with a NaN in it is NaN, and NaN <= 0 is false)
Degenerate(c) ==
  \/ \A k \in 1..Len(c) : c[k] = NaN
  \/ /\ \A k \in 1..Len(c) : c[k] # NaN
     /\ SeqSum(c) <= 0

\* combined / combined.sum(): each weight is <<numerator, denominator>>, or
\* <<NaN, 1>> when the sum is NaN
Normalise(c) ==
  IF \E k \in 1..Len(c) : c[k] = NaN
  THEN [k \in 1..Len(c) |-> <<NaN, 1>>]
  ELSE [k \in 1..Len(c) |-> <<c[k], SeqSum(c)>>]

\* Moderator.update: the new self.weights (hands_raised already incremented)
UpdateWeights(req, dw, inter, hr, b) ==
  IF Len(req) = 0 THEN <<>>
  ELSE LET c == Combined(req, dw, inter, hr, b)
           c1 == IF Degenerate(c) THEN [k \in 1..Len(c) |-> 1] ELSE c
       IN Normalise(c1)

\* np.all(np.isfinite(weights_array)) and np.sum(weights_array) > 0
WeightsUsable(w) ==
  /\ \A k \in 1..Len(w) : w[k][1] # NaN
  /\ SeqSum([k \in 1..Len(w) |-> w[k][1]]) > 0

\* variant: the weighted draw is tried without comparing the two lengths
WeightedDraw_any_length(req, w) == Len(w) # 0 /\ WeightsUsable(w)

\* Moderator.select_next_speaker reaches random.choices(requests, weights)
\* instead of the uniform random.choice
WeightedDraw(req, w) == Len(w) # 0 /\ Len(w) = Len(req) /\ WeightsUsable(w)

\* random.choices raises ValueError for weights of another length than the
\* population, or of a total that is not positive
ChoicesRaises(req, w) ==
  \/ Len(w) # Len(req)
  \/ SeqSum([k \in 1..Len(w) |-> w[k][1]]) <= 0

\* Moderator.select_next_speaker: the positions of self._requests that the
\* random module can return
SelectChoices(req, w) ==
  IF WeightedDraw(req, w) /\ ~ChoicesRaises(req, w)
  THEN {k \in 1..Len(req) : w[k][1] > 0}
  ELSE 1..Len(req)

\* Moderator.diversity_too_high; avg is the average pairwise similarity the
\* embedder gives for the opinions
OpinionCount(lo) == Cardinality({i \in DOMAIN lo : lo[i] # ""})
OracleCalled(lo) == OpinionCount(lo) >= 2
\* variant: the oracle without its "and current_iter >= min_iters"
DiversityTooHigh_any_iter(lo, avg, threshold, min_iters, current_iter) ==
  IF OpinionCount(lo) < 2 THEN FALSE
  ELSE avg > threshold

DiversityTooHigh(lo, avg, threshold, min_iters, current_iter) ==
  IF OpinionCount(lo) < 2 THEN FALSE
  ELSE avg > threshold /\ current_iter >= min_iters

\* -------------------------------------------------------------- Simulation
NoReason == ""
ReasonBudget == "All agents have reached their maximum intervention limit"
ReasonNoOne == "No agents want to continue the debate"
ReasonConverged == "Agent opinions have converged too much"
ReasonMaxIters == "Maximum iterations limit reached"

\* rounds recorded in one behaviour (a step that raises after the response
\* leaves its round recorded, so max_iters does not bound them); a debate of
\* three agents is followed for two rounds: its rounds branch on which of two
\* eligible agents answer and in which order
RoundCap == IF n_agents >= 3 THEN 2 ELSE MaxRounds

Init ==
  /\ n_agents \in AgentCounts
  /\ max_iters \in 0..MaxItersCfg
  /\ max_iters <= RoundCap + 1
  /\ max_interventions_per_agent \in {None} \cup 0..MaxCap
  /\ bias = [i \in 1..n_agents |-> 1]
  /\ agent_names = DistinctNames(n_agents)
  /\ critique \in Corrections
  /\ memory_size = MemSize
  /\ _started = FALSE /\ _finished = FALSE /\ iters = 0
  /\ intervenciones = <<>> /\ opiniones = <<>> /\ engagement_log = <<>>
  /\ _locutor = None
  /\ interventions_used = <<>> /\ last_opinion = <<>> /\ memory = <<>>
  /\ interventions = <<>> /\ hands_raised = <<>>
  /\ _requests = <<>> /\ _desire_weights = <<>> /\ weights = <<>>
  /\ ret = [op |-> "init"]
  /\ run_pc = "idle"
  /\ svc_pc = "off" /\ run_status = "created" /\ run_finished = FALSE
  /\ run_stopped_reason = NoReason /\ run_iters = 0

\* Simulation.start with the opening speaker random.choice returns
StartBody(opener) ==
  /\ interventions_used' = Zeros(n_agents)
  /\ last_opinion' = [i \in 1..n_agents |-> ""]
  /\ memory' = [i \in 1..n_agents |-> <<>>]
  /\ interventions' = Zeros(n_agents)
  /\ hands_raised' = Zeros(n_agents)
  /\ _requests' = <<>> /\ _desire_weights' = <<>>
  /\ weights' = [i \in 1..n_agents |-> <<1, 1>>]
  /\ _locutor' = opener
  /\ _started' = TRUE /\ _finished' = FALSE /\ iters' = 0
  /\ intervenciones' = <<>> /\ engagement_log' = <<>> /\ opiniones' = <<>>

\* variant: start() without its "if self._started: return"
Start_without_guard ==
  /\ \E opener \in 1..n_agents : StartBody(opener)
  /\ ret' = [op |-> "start", outcome |-> "returned"]
  /\ UNCHANGED cfgVars

Start ==
  /\ IF _started
     THEN UNCHANGED <<simVars, agentVars, modVars>>
     ELSE \E opener \in 1..n_agents : StartBody(opener)
  /\ ret' = [op |-> "start", outcome |-> "returned"]
  /\ UNCHANGED cfgVars

\* PoliAgent.propose: an agent that cannot intervene answers at once, without
\* calling the intent module; otherwise the answer is what the intent module
\* call gives (out), an exception included
Propose(cap, used, out) ==
  IF ~CanIntervene(cap, used)
  THEN [raised |-> FALSE, raise_hand |-> FALSE, desire |-> 0,
        intent_called |-> FALSE]
  ELSE [raised |-> out.raised, raise_hand |-> out.raise_hand,
        desire |-> out.desire, intent_called |-> TRUE]

\* eligible_agents: every agent but the speaker that can still intervene
Eligible(loc, iu, cap) ==
  {i \in 1..Len(iu) : Name(i) # Name(loc) /\ CanIntervene(cap, iu[i])}

\* self.max_interventions_per_agent is not None and len(eligible_agents) == 0
BudgetExhausted(cap, elig) == cap # None /\ elig = {}

\* variant: a proposal that raised is taken for a raised hand
HandRaisers_with_failed(elig, props) ==
  {i \in elig : props[i].raised \/ props[i].raise_hand}

\* the agents whose proposal came back (f.result() did not raise) with
\* raise_hand; they are registered in the order their futures complete
HandRaisers(elig, props) ==
  {i \in elig : ~props[i].raised /\ props[i].raise_hand}

\* variant: the eagerness values laid out in the order of the agents list
DesireWeights_by_agent_order(req, props) ==
  LET S == Range(req)
      nth(k) == CHOOSE i \in S : Cardinality({j \in S : j < i}) = k - 1
  IN [k \in 1..Len(req) |-> props[nth(k)].desire]

\* Moderator.add_request appends the agent and its weight together, so
\* _desire_weights[k] is the desire_to_speak of the agent _requests[k]
DesireWeights(req, props) == [k \in 1..Len(req) |-> props[req[k]].desire]

\* variant: the budget check of step() never ends the debate
EarlyReason_no_budget(budget, fanout, next) ==
  IF fanout /\ next = None THEN ReasonNoOne ELSE NoReason

\* the stop reason set before "Other stopping conditions": the budget check,
\* then "if next_locutor is None" of the fan-out branch
EarlyReason(budget, fanout, next) ==
  IF budget THEN ReasonBudget
  ELSE IF fanout /\ next = None THEN ReasonNoOne
  ELSE NoReason

\* "if not stopped_reason:" convergence, then the iteration budget
StopReason(early, conv, it, mx) ==
  IF early # NoReason THEN early
  ELSE IF conv THEN ReasonConverged
  ELSE IF it + 1 >= mx THEN ReasonMaxIters
  ELSE NoReason

\* variant: the round that ends the debate is counted too
NextIters_counting_last(reason, it) == it + 1

\* if stopped_reason: self._finished = True; else: self.iters += 1
NextIters(reason, it) == IF reason # NoReason THEN it ELSE it + 1

\* if self.iters % 3 == 0
SummaryDue(it) == it % SummaryEvery = 0

\* the summarize call of agent failAt raises (0: none does)
SummaryRaises(mem, failAt) == failAt # 0 /\ TextNonEmpty(mem[failAt])

\* for a in self._agents: a.summarize_memory(), up to the call that raises
SummarizeAll(mem, failAt, summary) ==
  [i \in DOMAIN mem |->
     IF TextNonEmpty(mem[i]) /\ (~SummaryRaises(mem, failAt) \/ i < failAt)
     THEN <<summary>> ELSE mem[i]]

\* Simulation.step on a finished simulation: return {"finished": True}
StepFinished ==
  /\ _started /\ _finished
  /\ ret' = [op |-> "step", outcome |-> "returned", err |-> "",
             finished |-> TRUE, ran |-> FALSE]
  /\ UNCHANGED <<cfgVars, simVars, agentVars, modVars>>

\* Simulation.step when self._locutor is None: reset_requests, then
\* self._locutor.talk raises AttributeError
StepNoLocutor ==
  /\ _started /\ ~_finished /\ _locutor = None
  /\ _requests' = <<>> /\ _desire_weights' = <<>>
  /\ ret' = [op |-> "step", outcome |-> "raised", err |-> "AttributeError",
             finished |-> FALSE, ran |-> FALSE]
  /\ UNCHANGED <<cfgVars, simVars, agentVars,
                 interventions, hands_raised, weights>>

\* variant: the fields are rebuilt as by start() on every call
Pre_always_fresh(x, fresh) == fresh

\* the value step() finds in a field once "if not self._started: self.start()"
\* is past: the field itself, or what start() has just put there
Pre(x, fresh) == IF _started THEN x ELSE fresh
Openers == IF _started THEN {None} ELSE 1..n_agents
PreLocutor(opener) == IF _started THEN _locutor ELSE opener

\* Simulation.step when self._locutor.talk raises (the respond module or the
\* critique fails): nothing of the round has been recorded
StepTalkRaises ==
  /\ Pre(~_finished, TRUE)
  /\ \E opener \in Openers :
       /\ PreLocutor(opener) # None
       /\ _locutor' = PreLocutor(opener)
  /\ _started' = TRUE /\ _finished' = FALSE
  /\ iters' = Pre(iters, 0)
  /\ intervenciones' = Pre(intervenciones, <<>>)
  /\ opiniones' = Pre(opiniones, <<>>)
  /\ engagement_log' = Pre(engagement_log, <<>>)
  /\ interventions_used' = Pre(interventions_used, Zeros(n_agents))
  /\ last_opinion' = Pre(last_opinion, [i \in 1..n_agents |-> ""])
  /\ memory' = Pre(memory, [i \in 1..n_agents |-> <<>>])
  /\ interventions' = Pre(interventions, Zeros(n_agents))
  /\ hands_raised' = Pre(hands_raised, Zeros(n_agents))
  /\ weights' = Pre(weights, [i \in 1..n_agents |-> <<1, 1>>])
  /\ _requests' = <<>> /\ _desire_weights' = <<>>
  /\ ret' = [op |-> "step", outcome |-> "raised", err |-> "talk",
             finished |-> FALSE, ran |-> FALSE, auto |-> ~_started]
  /\ UNCHANGED cfgVars

\* Simulation.step when the speaker's talk returns: the round, up to its
\* return or to the first call that raises after the response
StepRound ==
  /\ Pre(~_finished, TRUE)
  /\ \E opener \in Openers, draft \in Drafts, corrected \in {critique} :
     LET loc == PreLocutor(opener)
         n == n_agents
         cap == max_interventions_per_agent
         it0 == Pre(iters, 0)
         final == FinalResponse(draft, corrected)
         \* PoliAgent.talk, step 3
         iu1 == [Pre(interventions_used, Zeros(n)) EXCEPT ![loc] = @ + 1]
         lo1 == [Pre(last_opinion, [i \in 1..n |-> ""]) EXCEPT ![loc] = final]
         mem1 == [Pre(memory, [i \in 1..n |-> <<>>])
                    EXCEPT ![loc] = Enqueue(@, final)]
         opin1 == Append(Pre(opiniones, <<>>), final)
         interv1 == Append(Pre(intervenciones, <<>>), Name(loc))
         elig == Eligible(loc, iu1, cap)
         budget == BudgetExhausted(cap, elig)
         fanout == ~budget /\ elig # {}
         int0 == Pre(interventions, Zeros(n))
         hr0 == Pre(hands_raised, Zeros(n))
     IN
     /\ loc # None
     /\ Len(interv1) <= RoundCap
     /\ \E outs \in {f \in [elig -> ProposalOutcomes \cup ProposalOutcomesOf(1)] :
                         \A i \in elig : f[i] \in ProposalOutcomesOf(i)} :
        LET props == [i \in elig |-> Propose(cap, iu1[i], outs[i])] IN
        \E req \in Orders(HandRaisers(elig, props)) :
        LET dw == DesireWeights(req, props)
            comprometidos == [k \in 1..Len(req) |-> Name(req[k])]
            \* Moderator.update, when the fan-out branch runs
            hr1 == IF fanout THEN UpdateHandsRaised(req, hr0) ELSE hr0
            w1 == IF fanout THEN UpdateWeights(req, dw, int0, hr1, bias)
                  ELSE Pre(weights, [i \in 1..n |-> <<1, 1>>])
        IN
        \E pos \in (IF Len(req) = 0 THEN {0} ELSE SelectChoices(req, w1)) :
        LET next == IF pos = 0 THEN None ELSE req[pos]
            int1 == IF pos = 0 THEN int0 ELSE [int0 EXCEPT ![next] = @ + 1]
            early == EarlyReason(budget, fanout, next)
            oracleRuns == early = NoReason /\ OracleCalled(lo1)
        IN
        \E oracle \in (IF oracleRuns THEN OracleOutcomes ELSE {OracleNotAsked}) :
        LET oracleRaises == oracleRuns /\ oracle.raised
            conv == DiversityTooHigh(lo1, oracle.avg, Threshold, n - 1, it0)
            reason == StopReason(early, conv, it0, max_iters)
            it1 == NextIters(reason, it0)
            sumRuns == ~oracleRaises /\ SummaryDue(it1)
        IN
        \E failAt \in (IF sumRuns THEN 0..n ELSE {0}), summary \in Summaries :
        LET sumRaises == sumRuns /\ SummaryRaises(mem1, failAt)
        IN
        /\ failAt # 0 => sumRaises
        /\ _started' = TRUE
        /\ interventions_used' = iu1
        /\ last_opinion' = lo1
        /\ opiniones' = opin1
        /\ intervenciones' = interv1
        /\ engagement_log' = Append(Pre(engagement_log, <<>>), comprometidos)
        /\ _requests' = req /\ _desire_weights' = dw
        /\ hands_raised' = hr1 /\ weights' = w1
        /\ interventions' = int1
        /\ IF oracleRaises
           THEN /\ _finished' = FALSE /\ _locutor' = loc /\ iters' = it0
                /\ memory' = mem1
           ELSE /\ _finished' = (reason # NoReason)
                /\ _locutor' = IF reason # NoReason THEN loc ELSE next
                /\ iters' = it1
                /\ memory' = IF sumRuns THEN SummarizeAll(mem1, failAt, summary)
                             ELSE mem1
        /\ ret' = [op |-> "step",
                   outcome |-> IF oracleRaises \/ sumRaises
                               THEN "raised" ELSE "returned",
                   err |-> IF oracleRaises THEN "oracle"
                           ELSE IF sumRaises THEN "summarize" ELSE "",
                   ran |-> TRUE, auto |-> ~_started,
                   iteration |-> it1, speaker |-> Name(loc),
                   opinion |-> final, engaged |-> comprometidos,
                   finished |-> (~oracleRaises /\ reason # NoReason),
                   stopped_reason |-> IF oracleRaises THEN NoReason ELSE reason,
                   asked |-> IF fanout THEN elig ELSE {},
                   intent_calls |-> {i \in elig : props[i].intent_called},
                   answers |-> [i \in HandRaisers(elig, props)
                                  |-> props[i].desire],
                   sum_failed |-> IF sumRaises THEN failAt ELSE 0,
                   prop_raised |-> {i \in elig : props[i].raised},
                   hands |-> {i \in elig : props[i].raise_hand},
                   budget |-> budget,
                   nonext |-> (next = None),
                   conv |-> (~oracleRaises /\ conv),
                   iterb |-> (it0 + 1 >= max_iters),
                   summarized |-> sumRuns]
  /\ UNCHANGED cfgVars

Step == StepFinished \/ StepNoLocutor \/ StepTalkRaises \/ StepRound

\* Simulation.vote: for agent in self._agents, in list order
VoteOrder == [i \in 1..Len(interventions_used) |-> i]

\* variant: a count of the distinct answers instead of the answering agents
CountVotes_distinct(votes, order, v) ==
  IF \E k \in 1..Len(order) : votes[order[k]] = v THEN 1 ELSE 0

\* if vote: Yea += 1 else: Nay += 1
CountVotes(votes, order, v) ==
  Cardinality({k \in 1..Len(order) : votes[order[k]] = v})

\* Simulation.vote; the vote module of agent failAt raises (0: none does)
Vote ==
  /\ \/ \E failAt \in 1..Len(interventions_used) :
          ret' = [op |-> "vote", outcome |-> "raised",
                  calls |-> SubSeq(VoteOrder, 1, failAt)]
     \/ \E votes \in [1..Len(interventions_used) -> BOOLEAN] :
          ret' = [op |-> "vote", outcome |-> "returned",
                  calls |-> VoteOrder,
                  yea |-> CountVotes(votes, VoteOrder, TRUE),
                  nay |-> CountVotes(votes, VoteOrder, FALSE),
                  reasons |-> [k \in 1..Len(VoteOrder) |-> Name(VoteOrder[k])]]
  /\ UNCHANGED <<cfgVars, simVars, agentVars, modVars>>

\* Simulation.snapshot
Snapshot ==
  /\ ret' = [op |-> "snapshot", outcome |-> "returned",
             iters |-> iters, finished |-> _finished]
  /\ UNCHANGED <<cfgVars, simVars, agentVars, modVars>>

\* calls made by a client of the Simulation object, one at a time
Idle == run_pc # "loop" /\ svc_pc = "off"

ApiStart == Idle /\ Start /\ UNCHANGED <<run_pc, svcVars>>
ApiStep == Idle /\ Step /\ UNCHANGED <<run_pc, svcVars>>
\* vote() is called on a finished debate (the caller's part of the contract)
ApiVote == Idle /\ _finished /\ Vote /\ UNCHANGED <<run_pc, svcVars>>
ApiSnapshot == Idle /\ Snapshot /\ UNCHANGED <<run_pc, svcVars>>

\* Simulation.run: start if needed, then step until finished; run() is called
\* on a simulation that has not started or has finished (called between two
\* steps it does what the remaining steps do)
RunCall ==
  /\ Idle
  /\ ~_started \/ _finished
  /\ Start
  /\ run_pc' = "loop"
  /\ UNCHANGED svcVars

RunStep ==
  /\ run_pc = "loop" /\ ~_finished
  /\ Step
  /\ run_pc' = IF ret'.outcome = "raised" THEN "raised" ELSE "loop"
  /\ UNCHANGED svcVars

RunReturn ==
  /\ run_pc = "loop" /\ _finished
  /\ run_pc' = "returned"
  /\ ret' = [op |-> "run", outcome |-> "returned"]
  /\ UNCHANGED <<cfgVars, simVars, agentVars, modVars, svcVars>>

Next ==
  \/ ApiStart \/ ApiStep \/ ApiVote \/ ApiSnapshot
  \/ RunCall \/ RunStep \/ RunReturn

Spec == Init /\ [][Next]_vars

\* ------------------------------------------------- background run and stop
ReasonUser == "Manually stopped by user"

\* run.status = "finished" if not run.stopped_reason else "stopped"
FinalStatus(reason) == IF reason = NoReason THEN "finished" ELSE "stopped"

\* run_simulation_background up to its first await: status "running",
\* simulation.start(), the first stop check, and the step handed to the
\* executor
SvcLaunch ==
  /\ svc_pc = "off" /\ run_pc = "idle" /\ ~_started
  /\ Start
  /\ run_status' = "running"
  /\ svc_pc' = "step"
  /\ UNCHANGED <<run_pc, run_finished, run_stopped_reason, run_iters>>

\* the step in flight completes: a step that raises ends the task in its
\* except branch; otherwise the progress write, then the final write if the
\* step was terminal, else asyncio.sleep
SvcStepDone ==
  /\ svc_pc = "step"
  /\ Step
  /\ IF ret'.outcome = "raised"
     THEN /\ run_status' = "failed"
          /\ run_stopped_reason' = ret'.err
          /\ svc_pc' = "failed"
          /\ UNCHANGED <<run_finished, run_iters>>
     ELSE /\ run_iters' = run_iters + 1
          /\ run_finished' = ret'.finished
          /\ run_stopped_reason' = ret'.stopped_reason
          /\ run_status' = IF ret'.finished
                           THEN FinalStatus(ret'.stopped_reason)
                           ELSE run_status
          /\ svc_pc' = IF ret'.finished THEN "done" ELSE "sleep"
  /\ UNCHANGED run_pc

\* the loop resumes after the sleep: the stop check, then either the final
\* write or the next step handed to the executor
SvcWake ==
  /\ svc_pc = "sleep"
  /\ IF run_status = "stopped"
     THEN /\ _finished' = TRUE
          /\ run_status' = FinalStatus(run_stopped_reason)
          /\ svc_pc' = "done"
     ELSE /\ svc_pc' = "step"
          /\ UNCHANGED <<_finished, run_status>>
  /\ UNCHANGED <<cfgVars, _started, iters, intervenciones, opiniones,
                 engagement_log, _locutor, agentVars, modVars, ret, run_pc,
                 run_finished, run_stopped_reason, run_iters>>

\* POST /{sim_id}/stop for a run whose background task exists
StopRequest ==
  /\ svc_pc # "off"
  /\ ~run_finished
  /\ run_status' = "stopped"
  /\ run_stopped_reason' = ReasonUser
  /\ UNCHANGED <<cfgVars, simVars, agentVars, modVars, ret, run_pc,
                 svc_pc, run_finished, run_iters>>

SvcNext == SvcLaunch \/ SvcStepDone \/ SvcWake \/ StopRequest

SvcSpec == Init /\ [][SvcNext]_vars

\* --------------------------------------------- the Moderator used directly
\* Moderator(agents, bias=...) for one or two agents: uniform bias, or a
\* first agent of bias 2 and a second of bias 0 or 1
ModAgentCounts == {1, 2}
ModBiases(n) ==
  {[i \in 1..n |-> 1], [i \in 1..n |-> IF i = 1 THEN 2 ELSE 0],
   [i \in 1..n |-> IF i = 1 THEN 2 ELSE 1]}
\* the weight argument of add_request, in hundredths
ModDesires == {NaN, 0, 100}

\* Moderator.__init__ (no Simulation is started around it)
ModInit ==
  /\ n_agents \in ModAgentCounts
  /\ bias \in ModBiases(n_agents)
  /\ agent_names = DistinctNames(n_agents)
  /\ max_iters = 0 /\ max_interventions_per_agent = None /\ critique = ""
  /\ memory_size = MemSize
  /\ _started = FALSE /\ _finished = FALSE /\ iters = 0
  /\ intervenciones = <<>> /\ opiniones = <<>> /\ engagement_log = <<>>
  /\ _locutor = None
  /\ interventions_used = <<>> /\ last_opinion = <<>> /\ memory = <<>>
  /\ interventions = Zeros(n_agents) /\ hands_raised = Zeros(n_agents)
  /\ _requests = <<>> /\ _desire_weights = <<>>
  /\ weights = [i \in 1..n_agents |-> <<1, 1>>]
  /\ ret = [op |-> "init"]
  /\ run_pc = "idle"
  /\ svc_pc = "off" /\ run_status = "created" /\ run_finished = FALSE
  /\ run_stopped_reason = NoReason /\ run_iters = 0

ModAddRequest ==
  /\ Len(_requests) < MaxRequests
  /\ \E agent \in 1..n_agents, weight \in ModDesires :
       /\ _requests' = Append(_requests, agent)
       /\ _desire_weights' = Append(_desire_weights, weight)
  /\ ret' = [op |-> "add_request", outcome |-> "returned"]
  /\ UNCHANGED <<cfgVars, simVars, agentVars, interventions, hands_raised,
                 weights, run_pc, svcVars>>

ModResetRequests ==
  /\ _requests' = <<>> /\ _desire_weights' = <<>>
  /\ ret' = [op |-> "reset_requests", outcome |-> "returned"]
  /\ UNCHANGED <<cfgVars, simVars, agentVars, interventions, hands_raised,
                 weights, run_pc, svcVars>>

ModUpdate ==
  /\ SeqSum(hands_raised) + Len(_requests) <= MaxCount
  /\ hands_raised' = UpdateHandsRaised(_requests, hands_raised)
  /\ weights' = UpdateWeights(_requests, _desire_weights, interventions,
                              hands_raised', bias)
  /\ ret' = [op |-> "update", outcome |-> "returned"]
  /\ UNCHANGED <<cfgVars, simVars, agentVars, interventions, _requests,
                 _desire_weights, run_pc, svcVars>>

ModSelect ==
  /\ IF Len(_requests) = 0
     THEN /\ ret' = [op |-> "select", outcome |-> "returned", result |-> None]
          /\ UNCHANGED interventions
     ELSE IF WeightedDraw(_requests, weights) /\ ChoicesRaises(_requests, weights)
     THEN /\ ret' = [op |-> "select", outcome |-> "raised", result |-> None]
          /\ UNCHANGED interventions
     ELSE \E pos \in SelectChoices(_requests, weights) :
          /\ SeqSum(interventions) < MaxCount
          /\ interventions' = [interventions EXCEPT ![_requests[pos]] = @ + 1]
          /\ ret' = [op |-> "select", outcome |-> "returned",
                     result |-> _requests[pos]]
  /\ UNCHANGED <<cfgVars, simVars, agentVars, hands_raised, _requests,
                 _desire_weights, weights, run_pc, svcVars>>

ModNext == ModAddRequest \/ ModResetRequests \/ ModUpdate \/ ModSelect

ModSpec == ModInit /\ [][ModNext]_vars

\* ------------------------------------------- a FixedMemory used directly
\* FixedMemory(max_size) for every capacity up to PoliAgent's default, with
\* any sequence of enqueue and clear; ret.pushed is the items pushed since
\* the last clear
MemItems == {"a", "b"}

MemInit ==
  /\ n_agents = 1
  /\ bias = <<1>>
  /\ agent_names = DistinctNames(1)
  /\ max_iters = 0 /\ max_interventions_per_agent = None /\ critique = ""
  /\ memory_size \in 0..MemSize
  /\ _started = FALSE /\ _finished = FALSE /\ iters = 0
  /\ intervenciones = <<>> /\ opiniones = <<>> /\ engagement_log = <<>>
  /\ _locutor = None
  /\ interventions_used = <<0>> /\ last_opinion = <<"">>
  /\ memory = << <<>> >>
  /\ interventions = <<>> /\ hands_raised = <<>>
  /\ _requests = <<>> /\ _desire_weights = <<>> /\ weights = <<>>
  /\ ret = [op |-> "init", pushed |-> <<>>]
  /\ run_pc = "idle"
  /\ svc_pc = "off" /\ run_status = "created" /\ run_finished = FALSE
  /\ run_stopped_reason = NoReason /\ run_iters = 0

MemEnqueue ==
  /\ Len(ret.pushed) < MaxPushes
  /\ \E item \in MemItems :
       /\ memory' = [memory EXCEPT ![1] = DequeAppend(memory_size, @, item)]
       /\ ret' = [op |-> "enqueue", pushed |-> Append(ret.pushed, item)]
  /\ UNCHANGED <<cfgVars, simVars, interventions_used, last_opinion, modVars,
                 run_pc, svcVars>>

MemClear ==
  /\ memory' = [memory EXCEPT ![1] = <<>>]
  /\ ret' = [op |-> "clear", pushed |-> <<>>]
  /\ UNCHANGED <<cfgVars, simVars, interventions_used, last_opinion, modVars,
                 run_pc, svcVars>>

MemNext == MemEnqueue \/ MemClear

MemSpec == MemInit /\ [][MemNext]_vars

\* ---------------------------------- the eligible agents of a round, alone
\* The head of Simulation.step (the speaker's talk, then the eligible_agents
\* comprehension) for agents of any names, two agents of one name included:
\* AgentConfig.name is a free string of the request
ElInit ==
  /\ n_agents \in AgentCounts
  /\ bias = [i \in 1..n_agents |-> 1]
  /\ agent_names \in [1..n_agents -> 1..n_agents]
  /\ max_iters = 0 /\ critique = ""
  /\ max_interventions_per_agent \in {None} \cup 0..MaxCap
  /\ memory_size = MemSize
  /\ _started = TRUE /\ _finished = FALSE /\ iters = 0
  /\ intervenciones = <<>> /\ opiniones = <<>> /\ engagement_log = <<>>
  /\ _locutor \in 1..n_agents
  /\ interventions_used = Zeros(n_agents)
  /\ last_opinion = [i \in 1..n_agents |-> ""]
  /\ memory = [i \in 1..n_agents |-> <<>>]
  /\ interventions = Zeros(n_agents) /\ hands_raised = Zeros(n_agents)
  /\ _requests = <<>> /\ _desire_weights = <<>>
  /\ weights = [i \in 1..n_agents |-> <<1, 1>>]
  /\ ret = [op |-> "init"]
  /\ run_pc = "idle"
  /\ svc_pc = "off" /\ run_status = "created" /\ run_finished = FALSE
  /\ run_stopped_reason = NoReason /\ run_iters = 0

\* the speaker talks, the eligible agents are listed, and one of them (or the
\* speaker again, when nobody is listed) is the speaker of the next round
ElRound ==
  /\ interventions_used[_locutor] <= MaxCap
  /\ LET iu1 == [interventions_used EXCEPT ![_locutor] = @ + 1]
         elig == Eligible(_locutor, iu1, max_interventions_per_agent)
     IN /\ interventions_used' = iu1
        /\ ret' = [op |-> "eligible_agents", speaker |-> _locutor,
                   asked |-> elig]
        /\ _locutor' \in (IF elig = {} THEN {_locutor} ELSE elig)
  /\ UNCHANGED <<cfgVars, _started, _finished, iters, intervenciones,
                 opiniones, engagement_log, last_opinion, memory, modVars,
                 run_pc, svcVars>>

ElNext == ElRound

ElSpec == ElInit /\ [][ElNext]_vars

\* ================================================================= claims
HistoryLengthsAgree ==
  /\ Len(intervenciones) = Len(opiniones)
  /\ Len(opiniones) = Len(engagement_log)

\* the last call was a step() that ran a round and returned its result
RoundReturned == ret.op = "step" /\ ret.ran /\ ret.outcome = "returned"

\* C1: for every agent, when max_interventions_per_agent is set,
\* interventions_used never exceeds it, whatever the cap, the number of agents
\* and the sequence of step() calls that return or raise
C1_UsedWithinCap ==
  max_interventions_per_agent # None =>
    \A i \in 1..Len(interventions_used) :
      interventions_used[i] <= max_interventions_per_agent

\* C2 as stated: after every step() call, the terminal one included, the three
\* histories and iters all have the same length
C2_LengthsEqualIters ==
  ret.op = "step" =>
    /\ Len(intervenciones) = iters
    /\ Len(opiniones) = iters
    /\ Len(engagement_log) = iters

\* C2, amended: the three histories always have the same length and iters
\* never exceeds it; a step() that runs a round and returns adds one entry to
\* each history, and adds one to iters unless it ends the debate, in which
\* case iters is left as it was
C2_HistoriesAndIters ==
  /\ [](HistoryLengthsAgree /\ iters <= Len(intervenciones))
  /\ [][(ret'.op = "step" /\ ret'.ran /\ ret'.outcome = "returned") =>
          /\ Len(intervenciones') = Len(intervenciones) + 1
          /\ Len(opiniones') = Len(opiniones) + 1
          /\ Len(engagement_log') = Len(engagement_log) + 1
          /\ iters' = iters + (IF ret'.finished THEN 0 ELSE 1)
          /\ _finished' = ret'.finished]_vars

\* a step ended a debate that had completed at least one iteration
C2_Witness == RoundReturned /\ ret.finished /\ iters >= 1

\* C3: the stop reason of a returned round is the first that holds of budget
\* exhausted, no next speaker, opinions converged, iteration budget reached,
\* and the round is terminal exactly when one of them holds
C3_ReasonByPrecedence ==
  RoundReturned =>
    /\ ret.stopped_reason =
         (IF ret.budget THEN ReasonBudget
          ELSE IF ret.nonext THEN ReasonNoOne
          ELSE IF ret.conv THEN ReasonConverged
          ELSE IF ret.iterb THEN ReasonMaxIters
          ELSE NoReason)
    /\ ret.finished <=> (ret.budget \/ ret.nonext \/ ret.conv \/ ret.iterb)

\* C4: _finished and _started never go back to false; step() on a finished
\* simulation returns a result flagged finished and changes no history,
\* counter, agent or moderator state; start() on a started simulation changes
\* nothing
C4_Lifecycle ==
  [][/\ _finished => _finished'
     /\ _started => _started'
     /\ (_finished /\ ret'.op = "step") =>
          (ret'.finished /\ UNCHANGED <<simVars, agentVars, modVars>>)
     /\ (_started /\ ret'.op = "start") =>
          UNCHANGED <<simVars, agentVars, modVars>>]_vars

\* step() was called on a debate that had finished after two rounds or more
C4_Witness ==
  /\ ret.op = "step" /\ ~ret.ran /\ ret.finished
  /\ _finished /\ Len(intervenciones) >= 2

\* C5: a run() whose backend calls all return does not raise; it reaches
\* Finished having recorded at most max_iters rounds, with iters <= max_iters
C5_RunEndsWithinBudget ==
  /\ run_pc = "raised" => ret.err \in {"talk", "oracle", "summarize"}
  /\ (run_pc = "loop" /\ ret.op = "step") =>
       (Len(intervenciones) <= max_iters /\ iters <= max_iters)

\* C6: when the proposal of an eligible agent x raises, the step does not
\* raise for it (only a failure of the similarity oracle or of a summary makes
\* a round raise) and records its engagement list; x is not in the engaged
\* list, is not registered and keeps its hands_raised; every eligible agent
\* that raised its hand is engaged, registered and counted, in every order of
\* completion
C6_ProposeFailureIsolated ==
  [][(ret'.op = "step" /\ ret'.ran) =>
      LET before == Pre(hands_raised, Zeros(n_agents)) IN
      /\ ret'.outcome = "raised" => ret'.err \in {"oracle", "summarize"}
      /\ engagement_log' = Append(engagement_log, ret'.engaged)
      /\ \A x \in ret'.prop_raised :
           /\ x \notin Range(ret'.engaged)
           /\ x \notin Range(_requests')
           /\ hands_raised'[x] = before[x]
      /\ \A y \in ret'.hands :
           /\ Name(y) \in Range(ret'.engaged)
           /\ y \in Range(_requests')
           /\ hands_raised'[y] = before[y] + 1
      /\ Len(ret'.engaged) = Cardinality(ret'.hands)]_vars

\* a round returned in which one proposal raised and another agent was engaged
C6_Witness ==
  RoundReturned /\ ret.prop_raised # {} /\ Len(ret.engaged) >= 1

\* C7 as stated: when the speaker's talk raises, histories, iters, the active
\* speaker, the finished flag, the agents' fields and the moderator's
\* cumulative counters are as they were before the call
C7_TalkFailureUnchanged ==
  [][(ret'.op = "step" /\ ret'.err = "talk") =>
      UNCHANGED <<intervenciones, opiniones, engagement_log, iters, _locutor,
                  _finished, agentVars, interventions, hands_raised>>]_vars

\* C7, amended: when the speaker's talk raises, step() raises and nothing of
\* the round is recorded: on a started simulation every field named by the
\* claim is as it was before the call; on a simulation that was not started,
\* the call has started it, and the fields are as start() leaves them (an
\* opening speaker chosen, empty histories, zeroed counters)
C7_TalkFailureKeepsState ==
  [][(ret'.op = "step" /\ ret'.err = "talk") =>
      /\ ret'.outcome = "raised"
      /\ IF _started
         THEN UNCHANGED <<simVars, agentVars, interventions, hands_raised>>
         ELSE /\ _started' /\ ~_finished' /\ iters' = 0
              /\ intervenciones' = <<>> /\ opiniones' = <<>>
              /\ engagement_log' = <<>>
              /\ _locutor' \in 1..n_agents
              /\ interventions_used' = Zeros(n_agents)
              /\ last_opinion' = [i \in 1..n_agents |-> ""]
              /\ memory' = [i \in 1..n_agents |-> <<>>]
              /\ interventions' = Zeros(n_agents)
              /\ hands_raised' = Zeros(n_agents)]_vars

\* the talk of a later round raised
C7_Witness ==
  ret.op = "step" /\ ret.err = "talk" /\ Len(intervenciones) >= 1

\* C8: vote() asks every agent once, in list order (a vote that raises ends
\* the calls there); when it returns, yea + nay is the number of agents and
\* there is one reasoning entry per agent, in the same order; vote() changes
\* no history, counter, agent or moderator state
C8_VoteCountsEveryAgent ==
  /\ [](ret.op = "vote" =>
          /\ \A k \in 1..Len(ret.calls) : ret.calls[k] = k
          /\ ret.outcome = "returned" =>
               /\ Len(ret.calls) = n_agents
               /\ ret.yea + ret.nay = n_agents
               /\ ret.reasons = [k \in 1..n_agents |-> Name(k)])
  /\ [][ret'.op = "vote" => UNCHANGED <<simVars, agentVars, modVars>>]_vars

\* a vote returned with both answers given
C8_Witness ==
  ret.op = "vote" /\ ret.outcome = "returned" /\ ret.yea >= 1 /\ ret.nay >= 1

\* a stop request is recorded and the run loop has not ended
StopPending == run_status = "stopped" /\ svc_pc \in {"step", "sleep"}

\* C9: once a stop request is recorded for a running simulation, the loop
\* starts no further round: the round in flight completes, and the check that
\* sees the request ends the loop without a respond call, the simulation
\* marked finished with the user-requested reason
C9_StopHonoured ==
  [][(StopPending /\ svc_pc' # svc_pc) =>
      /\ svc_pc' # "step"
      /\ svc_pc = "sleep" =>
           /\ svc_pc' = "done" /\ _finished'
           /\ UNCHANGED <<intervenciones, opiniones, agentVars>>
           /\ run_stopped_reason' = ReasonUser]_vars

\* C10: select_next_speaker never raises; it returns None exactly when
\* requests is empty at the call, and otherwise a member of requests (whose
\* interventions count it increments), also when weights was not recomputed
\* for these requests or has another length
C10_SelectNextSpeaker ==
  [][ret'.op = "select" =>
      /\ ret'.outcome = "returned"
      /\ ret'.result = None <=> _requests = <<>>
      /\ ret'.result # None =>
           /\ ret'.result \in Range(_requests)
           /\ interventions' = [interventions EXCEPT ![ret'.result] = @ + 1]
      /\ UNCHANGED <<_requests, _desire_weights, weights, hands_raised>>]_vars

\* a speaker was selected with weights of another length than requests
C10_Witness ==
  /\ ret.op = "select" /\ ret.result # None
  /\ Len(weights) # Len(_requests)
\* C11: whenever requests is non-empty, update() stores one weight per request
\* and the weights sum to 1, whatever the eagerness values are (a NaN among
\* them included)
C11_WeightsSumToOne ==
  (ret.op = "update" /\ Len(_requests) > 0) =>
    /\ Len(weights) = Len(_requests)
    /\ \A k \in 1..Len(weights) : weights[k][1] # NaN
    /\ SeqSum([k \in 1..Len(weights) |-> weights[k][1]]) = weights[1][2]
\* C12: diversity_too_high answers true only if at least two agents hold an
\* opinion and current_iter >= min_iters, whatever the similarity and the
\* threshold; so no round ends with the "converged" reason while fewer than
\* two agents have spoken or while iters < n_agents - 1
C12_ConvergedNeedsTwoAndMinIters ==
  /\ \A avg \in {0, Threshold, 90}, threshold \in {0, Threshold},
        min_iters \in 0..n_agents, current_iter \in 0..n_agents :
       DiversityTooHigh(last_opinion, avg, threshold, min_iters, current_iter)
         => (OpinionCount(last_opinion) >= 2 /\ current_iter >= min_iters)
  /\ (ret.op = "step" /\ ret.ran /\ ret.stopped_reason = ReasonConverged)
       => (OpinionCount(last_opinion) >= 2 /\ iters >= n_agents - 1)

C12_Witness ==
  /\ RoundReturned /\ ret.stopped_reason = ReasonConverged
  /\ OpinionCount(last_opinion) >= 2
\* the last k items of a sequence
LastItems(s, k) == SubSeq(s, Len(s) - k + 1, Len(s))

\* C13: after any sequence of enqueue and clear, a FixedMemory holds at most
\* its capacity N items, and they are exactly the last min(N, pushes since the
\* last clear) pushed items in push order (an overflowing push drops the
\* oldest item)
C13_MemoryIsLastN ==
  LET pushed == ret.pushed
      k == IF Len(pushed) < memory_size THEN Len(pushed) ELSE memory_size
  IN /\ Len(memory[1]) <= memory_size
     /\ memory[1] = LastItems(pushed, k)

C13_Witness ==
  /\ ret.op = "enqueue" /\ memory_size = MemSize
  /\ Len(ret.pushed) > memory_size
  /\ memory[1] # SubSeq(ret.pushed, 1, memory_size)
\* C15: a round in which nobody registers a hand raise (next speaker None)
\* and the budget-exhausted condition does not apply ends the debate with
\* reason "no one wants to continue"; step() never returns an unfinished
\* round whose next speaker is None, for any number of agents and any cap
C15_NoOneEndsTheDebate ==
  RoundReturned =>
    /\ (ret.nonext /\ ~ret.budget)
         => (ret.finished /\ ret.stopped_reason = ReasonNoOne)
    /\ ~ret.finished => _locutor # None
\* the moderator's counters and weights as the step found them
ModeratorUntouched ==
  /\ interventions' = Pre(interventions, Zeros(n_agents))
  /\ hands_raised' = Pre(hands_raised, Zeros(n_agents))
  /\ weights' = Pre(weights, [i \in 1..n_agents |-> <<1, 1>>])

\* C16: with a cap set and nobody eligible after the speaker's response, the
\* step ends the debate with the budget-exhausted reason, asks no agent for
\* its intent, records an empty engaged list and calls neither update nor
\* select_next_speaker (interventions and hands_raised are left as they were)
C16_BudgetExhaustedRound ==
  [][(ret'.op = "step" /\ ret'.ran /\ max_interventions_per_agent # None
      /\ Eligible(ret'.speaker, interventions_used',
                  max_interventions_per_agent) = {})
       => /\ _finished'
          /\ ret'.stopped_reason = ReasonBudget
          /\ ret'.finished
          /\ ret'.asked = {} /\ ret'.intent_calls = {}
          /\ ret'.engaged = <<>>
          /\ engagement_log'[Len(engagement_log')] = <<>>
          /\ _requests' = <<>>
          /\ ModeratorUntouched]_vars

C16_Witness ==
  /\ RoundReturned /\ ret.budget /\ max_interventions_per_agent >= 1
  /\ n_agents >= 2 /\ Len(intervenciones) >= 2
  /\ SeqSum(hands_raised) >= 1
\* the agents other than agent sp that can still intervene
OthersThatCanSpeak(sp) ==
  {i \in 1..n_agents :
     i # sp /\ CanIntervene(max_interventions_per_agent, interventions_used[i])}

\* the answer of propose when can_intervene() is false
BlockedAnswer ==
  [raised |-> FALSE, raise_hand |-> FALSE, desire |-> 0, intent_called |-> FALSE]

\* C17: in every round the intent fan-out goes to exactly the agents other
\* than the round's speaker that can still intervene, so neither the speaker
\* nor an agent out of budget is asked; and an agent that cannot intervene
\* answers raise_hand false, desire 0 without calling the intent module
C17_FanOutToTheOthersThatCan ==
  /\ ret.op = "eligible_agents" => ret.asked = OthersThatCanSpeak(ret.speaker)
  /\ \A i \in 1..Len(interventions_used) : \A out \in ProposalOutcomesOf(i) :
       ~CanIntervene(max_interventions_per_agent, interventions_used[i])
         => Propose(max_interventions_per_agent, interventions_used[i], out)
              = BlockedAnswer
\* C18: a step summarises the agents' memories if and only if it completed an
\* iteration (it incremented iters) and the incremented count is a multiple of
\* 3; the terminal step, which does not increment iters, summarises nothing
C18_SummaryOnlyAfterIncrement ==
  (ret.op = "step" /\ ret.ran /\ ret.err # "oracle") =>
    (ret.summarized <=> (~ret.finished /\ ret.iteration % SummaryEvery = 0))
\* C19: when the summarisation of one agent fails during a step, the step
\* still returns its round result and the other agents are still compressed
\* (each non-empty memory becomes the one summary)
C19_SummaryFailureIsolated ==
  (ret.op = "step" /\ ret.ran /\ ret.sum_failed # 0) =>
    /\ ret.outcome = "returned"
    /\ \A i \in 1..n_agents :
         (i # ret.sum_failed /\ TextNonEmpty(memory[i]))
           => (Len(memory[i]) = 1 /\ memory[i][1] \in Summaries)
\* C20: whatever the order in which the parallel intent calls of a round
\* complete, when the fan-out ends every asked agent's call has completed or
\* failed, _requests holds exactly one entry per agent that raised its hand
\* (none lost, none twice), _desire_weights has the same length, and each
\* eagerness stands at the position of its agent
C20_RequestsMatchRaisedHands ==
  (ret.op = "step" /\ ret.ran) =>
    /\ ret.intent_calls = ret.asked
    /\ ret.hands \subseteq ret.asked
    /\ Range(_requests) = ret.hands
    /\ Len(_requests) = Cardinality(ret.hands)
    /\ Len(_desire_weights) = Len(_requests)
    /\ DOMAIN ret.answers = ret.hands
    /\ \A k \in 1..Len(_requests) :
         _desire_weights[k] = ret.answers[_requests[k]]

C20_Witness ==
  /\ RoundReturned /\ Len(_requests) = 2
  /\ _requests[1] > _requests[2]
  /\ _desire_weights[1] # _desire_weights[2]
  /\ ret.prop_raised = {}
\* the number of entries of agent i in a request list
Entries(req, i) == Cardinality({k \in 1..Len(req) : req[k] = i})

\* C21 (as stated): each add_request appends the agent and its eagerness and
\* increments hands_raised of that agent by exactly one, and nothing else
\* changes hands_raised
C21_AddRequestCountsHand ==
  [][/\ ret'.op = "add_request" =>
          /\ Len(_requests') = Len(_requests) + 1
          /\ Len(_desire_weights') = Len(_desire_weights) + 1
          /\ hands_raised' =
               [hands_raised EXCEPT ![_requests'[Len(_requests')]] = @ + 1]
     /\ ret'.op # "add_request" => hands_raised' = hands_raised]_vars

\* C21 (amended): add_request appends the agent and its eagerness and leaves
\* hands_raised alone; update() adds to hands_raised[i] the number of entries
\* of agent i in the requests; reset_requests and select_next_speaker leave
\* hands_raised alone
C21_UpdateCountsHands ==
  [][/\ ret'.op = "add_request" =>
          /\ Len(_requests') = Len(_requests) + 1
          /\ SubSeq(_requests', 1, Len(_requests)) = _requests
          /\ Len(_desire_weights') = Len(_desire_weights) + 1
          /\ SubSeq(_desire_weights', 1, Len(_desire_weights)) = _desire_weights
          /\ hands_raised' = hands_raised
     /\ ret'.op = "update" =>
          hands_raised' = [i \in 1..n_agents |->
                             hands_raised[i] + Entries(_requests, i)]
     /\ ret'.op \in {"reset_requests", "select"} =>
          hands_raised' = hands_raised]_vars

C21_Witness ==
  /\ ret.op = "update"
  /\ \E i \in 1..n_agents : Entries(_requests, i) = 2 /\ hands_raised[i] = 2
\* float comparisons of two weights of one round (same denominator): any
\* comparison with a NaN is false
WeightGreater(x, y) == x[1] # NaN /\ y[1] # NaN /\ x[1] > y[1]
WeightAtLeast(x, y) == x[1] # NaN /\ y[1] # NaN /\ x[1] >= y[1]

\* requesters j and k of the round just weighted differ in nothing but what
\* the claim is about: same hands_raised and same (finite) eagerness
SameHandsAndDesire(j, k) ==
  /\ hands_raised[_requests[j]] = hands_raised[_requests[k]]
  /\ _desire_weights[j] = _desire_weights[k] /\ _desire_weights[j] # NaN

\* position j of the requests has the lower positive bias of j and k, with
\* equal interventions >= 1
LowerBiasOf(j, k) ==
  /\ SameHandsAndDesire(j, k)
  /\ interventions[_requests[j]] = interventions[_requests[k]]
  /\ interventions[_requests[j]] >= 1
  /\ 0 < bias[_requests[j]] /\ bias[_requests[j]] < bias[_requests[k]]

C23_FewerInterventionsFavoured ==
  (ret.op = "update" /\ Len(_requests) > 0) =>
    /\ \A j, k \in 1..Len(_requests) :
         ( /\ SameHandsAndDesire(j, k)
           /\ bias[_requests[j]] > 0
           /\ bias[_requests[j]] = bias[_requests[k]]
           /\ interventions[_requests[j]] < interventions[_requests[k]] )
         => WeightAtLeast(weights[j], weights[k])
    /\ Len(weights) = Len(_requests)
    /\ \A k \in 1..Len(weights) : weights[k][1] # NaN /\ weights[k][1] > 0
\* the agent that spoke in the round a step has just run
SpeakerOf(r) == CHOOSE i \in 1..n_agents : Name(i) = r.speaker

\* C24: a talk that returns appends the final (post-critique) content to the
\* speaker's memory, makes it the speaker's last_opinion and adds exactly one
\* to its interventions_used; the content appended to the content history of
\* the round is that same value; no other agent's memory, last_opinion or
\* interventions_used changes.  (The memories are looked at in the steps that
\* do not go on to summarise them.)
C24_TalkFrame ==
  [][(ret'.op = "step" /\ ret'.ran) =>
      LET sp == SpeakerOf(ret')
          content == ret'.opinion
          iu0 == Pre(interventions_used, Zeros(n_agents))
          lo0 == Pre(last_opinion, [i \in 1..n_agents |-> ""])
          mem0 == Pre(memory, [i \in 1..n_agents |-> <<>>])
          op0 == Pre(opiniones, <<>>)
      IN /\ critique # "" => content = critique
         /\ critique = "" => content \in Drafts
         /\ interventions_used' = [iu0 EXCEPT ![sp] = @ + 1]
         /\ last_opinion' = [lo0 EXCEPT ![sp] = content]
         /\ opiniones' = Append(op0, content)
         /\ ~ret'.summarized =>
              memory' = [mem0 EXCEPT ![sp] = DequeAppend(memory_size, @, content)]
     ]_vars

C24_Witness ==
  /\ RoundReturned /\ ~ret.summarized /\ critique # ""
  /\ n_agents >= 2 /\ Len(opiniones) >= 2
  /\ Len(memory[SpeakerOf(ret)]) >= 1
  /\ \E i \in 1..n_agents : i # SpeakerOf(ret) /\ Len(memory[i]) >= 1
\* C25: the speaker of every recorded round but the first is a member of the
\* engaged list recorded for the round before it; so no agent speaks in two
\* consecutive rounds, and each round records one speaker and one content
C25_NextSpeakerWasEngaged ==
  /\ Len(engagement_log) = Len(intervenciones)
  /\ Len(opiniones) = Len(intervenciones)
  /\ \A k \in 1..(Len(intervenciones) - 1) :
       /\ k <= Len(engagement_log)
            => intervenciones[k + 1] \in Range(engagement_log[k])
       /\ intervenciones[k + 1] # intervenciones[k]
\* C26: when a debate finishes with the budget-exhausted reason, every agent,
\* the speaker of the final round included, has used exactly its cap of
\* interventions (no agent can intervene any more)
C26_BudgetEndMeansAllAtCap ==
  (ret.op = "step" /\ ret.ran /\ _finished
   /\ ret.stopped_reason = ReasonBudget) =>
    \A i \in 1..n_agents :
      /\ interventions_used[i] = max_interventions_per_agent
      /\ ~CanIntervene(max_interventions_per_agent, interventions_used[i])
\* C27: once the debate is finished, the moderator's interventions[i] is the
\* number of rounds in which agent i spoke, less one for the opening speaker
\* (who was not selected by the moderator)
C27_InterventionsAreTurnsTaken ==
  (_started /\ _finished /\ Len(intervenciones) >= 1) =>
    \A i \in 1..n_agents :
      interventions[i] =
        Entries(intervenciones, Name(i))
          - (IF intervenciones[1] = Name(i) THEN 1 ELSE 0)
\* C28: when step() raises after the speaker has responded (the convergence
\* check or a summarisation fails), the state of a started simulation is as
\* it was before the call: histories, iters, active speaker, the agents'
\* interventions_used and the moderator's interventions are unchanged
C28_LateFailureRollsBack ==
  [][(_started /\ ret'.op = "step" /\ ret'.ran /\ ret'.outcome = "raised") =>
      UNCHANGED <<intervenciones, opiniones, engagement_log, iters, _locutor,
                  interventions_used, interventions>>]_vars
\* C29: when a stop request has been accepted while the run loop is running,
\* the final record of the run has status "stopped" and the reason "Manually
\* stopped by user", whatever the step in flight and its progress write did
C29_StopReasonSurvives ==
  [][(run_status = "stopped" /\ svc_pc \in {"step", "sleep"}
      /\ svc_pc' = "done") =>
       /\ run_status' = "stopped"
       /\ run_stopped_reason' = ReasonUser]_vars

\* C30: a run whose debate ends through one of its own stop conditions, with
\* no stop request made, ends with status "finished" and finished = true;
\* the status becomes "stopped" only by a user's stop request
C30_NaturalEndIsFinished ==
  [][/\ (svc_pc = "step" /\ run_status = "running" /\ svc_pc' = "done") =>
          (run_status' = "finished" /\ run_finished')
     /\ (run_status # "stopped" /\ run_status' = "stopped") =>
          (run_stopped_reason' = ReasonUser /\ UNCHANGED svc_pc)]_vars
====
